---- MODULE Spec2Model ----
(***************************************************************************)
(* Draft lifecycle of the x_mcp server (src/src/x_mcp/server.py): the      *)
(* drafts directory, the tool handlers that create, list, publish and      *)
(* delete draft files, and the posting / media-upload API they call.       *)
(*                                                                         *)
(* A draft file is a JSON object; it is modelled as a TLA+ record whose    *)
(* DOMAIN is the object's key set, so `"content" in draft` is              *)
(* "content" \in DOMAIN draft.  A file name f"<prefix>{int(ts)}.json" is   *)
(* the pair <<prefix, int(ts)>>.  Python's None is the id 0 (real ids are  *)
(* positive) and, for media_ids, the empty sequence.  The "timestamp"      *)
(* field of a draft keeps the second of datetime.now().isoformat().        *)
(* A JSON value that is not a string is a token of NonStrings: "#7" is     *)
(* the number 7.                                                           *)
(*                                                                         *)
(* `await asyncio.sleep(1)` is the suspension point pc = "sleep": the      *)
(* clock may advance by any amount while a call is suspended there.        *)
(* The host (mcp.server) is not part of the repository.  Under Spec it     *)
(* hands the handlers one call at a time, with arguments that are well     *)
(* typed or lack a field; under SpecUntyped the arguments may also be of   *)
(* the wrong type; under SpecStray the server starts on a directory that   *)
(* holds an unreadable file; under SpecOverlap the host may start a        *)
(* delete_draft or publish_draft call while a publish_draft call is        *)
(* suspended.  SpecRetry and SpecRace are hosts working on thread drafts   *)
(* only: SpecRetry records the failures of publish_draft in the history    *)
(* variable lastFailure, SpecRace starts delete_draft calls while a        *)
(* publish_draft call is suspended.                                        *)
(***************************************************************************)
EXTENDS Integers, Sequences, FiniteSets, TLC

\* ---- bounds of the model ------------------------------------------------
MaxClock == 2          \* the clock runs over 0..MaxClock ticks
TicksPerSec == 2       \* clock ticks per second
MaxLen == 2            \* longest thread a caller submits
MaxDrafts == 2         \* most files in the drafts directory
MaxPosts == 3          \* most posts the platform accepts
MaxCalls == 2          \* publish_draft calls that may be in progress

None == 0

Texts == {"a", "b"}
NonStrings == {"#7"}               \* JSON values that are not strings
NonLists == {[i \in {0} |-> "#7"]} \* JSON values that are not arrays
Threads == UNION {[1..n -> Texts] : n \in 0..MaxLen}
MediaPaths == {"pic.png", "gone.png"}
MediaFiles == {"pic.png"}          \* the media paths that exist on disk
MediaRefs == {"m1", "m2"}          \* media_id_string values the platform returns
NoMedia == "upload failed"         \* a media-upload call that raised
Prefixes == {"draft_", "thread_draft_", "media_draft_"}
Calls == 1..MaxCalls

VARIABLES
  now,        \* datetime.now(), in ticks
  dirExists,  \* os.path.exists("drafts")
  drafts,     \* the files of the drafts directory: file name -> JSON object
  tweets,     \* the platform: the number of posts created so far; they are
              \* never removed and their ids are 1..tweets
  call,       \* the publish_draft calls in progress or just finished
  ret,        \* the outcome of the create, list, upload or delete call that
              \* has just run, with the arguments it was given, until it is
              \* handed to the caller
  lastFailure \* history: the last thread publish that failed after its first
              \* posting call

vars == <<now, dirExists, drafts, tweets, call, ret, lastFailure>>

\* ---- helpers ------------------------------------------------------------

\* isinstance(v, str)
IsStr(v) == v \in Texts \cup MediaPaths

\* a list with at least one item
IsListNonEmpty(v) == v \notin NonLists /\ v # <<>>

\* isinstance(v, list)
IsList(v) == v \notin NonLists

\* int(datetime.now().timestamp()) at clock value t
Timestamp(t) == t \div TicksPerSec

\* f"{prefix}{int(datetime.now().timestamp())}.json"
DraftName(prefix, t) == <<prefix, Timestamp(t)>>

\* every file name a caller may pass as draft_id
DraftIds == Prefixes \X (0..Timestamp(MaxClock))

\* the values a second datetime.now() may return after a first returned now
LaterNow == {t \in {now, now + 1} : t <= MaxClock}

\* os.path.exists(os.path.join("drafts", draft_id))
Exists(draft_id) == draft_id \in DOMAIN drafts

\* os.remove that empties the directory
RemoveAll(draft_id) == <<>>

\* os.remove that leaves the file in place
RemoveNothing(draft_id) == drafts

\* the directory after os.remove(filepath)
Remove(draft_id) == [f \in DOMAIN drafts \ {draft_id} |-> drafts[f]]

\* the directory after open(path, "w") and json.dump(draft, f)
WriteFile(draft_id, draft) ==
  [f \in DOMAIN drafts \cup {draft_id} |-> IF f = draft_id THEN draft ELSE drafts[f]]

\* the model keeps at most MaxDrafts files
RoomFor(draft_id) == Exists(draft_id) \/ Cardinality(DOMAIN drafts) < MaxDrafts

NoId == <<"", 0>>

\* outcome of a call: a TextContent result, or a raised exception
TextResult(op, arguments, draft_id, listing) ==
  [op |-> op, arguments |-> arguments, kind |-> "text", msg |-> "ok",
   draft_id |-> draft_id, listing |-> listing, uploads |-> <<>>]
Raise(op, arguments, kind, msg) ==
  [op |-> op, arguments |-> arguments, kind |-> kind, msg |-> msg,
   draft_id |-> NoId, listing |-> <<>>, uploads |-> <<>>]

\* the outcome r of a call with its media-upload calls, each recorded by
\* the reference it returned (NoMedia when it raised)
WithUploads(r, uploads) == [r EXCEPT !.uploads = uploads]
NoRet == Raise("none", <<>>, "none", "none")

NoDraft == <<>>

\* the content of a file that json.load cannot read
Corrupt == [corrupt |-> TRUE]
IdleCall ==
  [pc |-> "idle", draft_id |-> NoId, draft |-> NoDraft, idx |-> 0,
   last_tweet_id |-> None, calls |-> <<>>, sleeps |-> 0, uploads |-> <<>>,
   arguments |-> <<>>, retry |-> 0,
   kind |-> "none", msg |-> "none", tweet_id |-> None]

\* response.data['id'] of a create_tweet call that the platform accepts
NewTweetId == tweets + 1

\* one posting call as the handler issued it, with the id it got back
PostCall(text, reply, media_ids, id) ==
  [text |-> text, in_reply_to_tweet_id |-> reply, media_ids |-> media_ids, id |-> id]

\* no thread publish has failed after its first posting call
NoFailure == [draft_id |-> NoId, k |-> 0]

Init ==
  /\ lastFailure = NoFailure
  /\ now = 0
  /\ dirExists \in BOOLEAN
  /\ drafts = <<>>
  /\ tweets = 0
  /\ call = [p \in Calls |-> IdleCall]
  /\ ret = NoRet

\* ---- the clock ----------------------------------------------------------
Tick ==
  /\ now < MaxClock
  /\ now' = now + 1
  /\ UNCHANGED <<dirExists, drafts, tweets, call, ret>>

\* ---- create_draft_tweet -------------------------------------------------
TweetArgs == {[content |-> c] : c \in Texts} \cup {<<>>}

\* try-block of a draft-creating handler: makedirs, file name, open and dump
SaveDraft(op, arguments, prefix, draft, uploads) ==
  \E t2 \in LaterNow, io \in {"ok", "makedirs fails", "open fails"} :
    LET draft_id == DraftName(prefix, t2) IN
    /\ now' = t2
    /\ CASE io = "ok" ->
              /\ RoomFor(draft_id)
              /\ dirExists' = TRUE
              /\ drafts' = WriteFile(draft_id, draft)
              /\ ret' = WithUploads(TextResult(op, arguments, draft_id, <<>>), uploads)
         [] io = "makedirs fails" ->
              /\ ~dirExists
              /\ UNCHANGED <<dirExists, drafts>>
              /\ ret' = WithUploads(Raise(op, arguments, "RuntimeError", "storage"), uploads)
         [] io = "open fails" ->
              /\ dirExists' = TRUE
              /\ UNCHANGED drafts
              /\ ret' = WithUploads(Raise(op, arguments, "RuntimeError", "storage"), uploads)

handle_create_draft_tweet(arguments) ==
  /\ IF "content" \notin DOMAIN arguments
     THEN /\ ret' = Raise("create_draft_tweet", arguments, "ValueError", "invalid arguments")
          /\ UNCHANGED <<now, dirExists, drafts>>
     ELSE SaveDraft("create_draft_tweet", arguments, "draft_",
                    [content |-> arguments.content, timestamp |-> Timestamp(now)], <<>>)
  /\ UNCHANGED <<tweets, call>>

\* ---- create_draft_thread ------------------------------------------------
ThreadArgs == {[contents |-> cs] : cs \in Threads} \cup {<<>>}

handle_create_draft_thread(arguments) ==
  /\ IF "contents" \notin DOMAIN arguments
     THEN /\ ret' = Raise("create_draft_thread", arguments, "ValueError", "invalid arguments")
          /\ UNCHANGED <<now, dirExists, drafts>>
     ELSE IF \/ ~IsList(arguments.contents)
             \/ \E i \in DOMAIN arguments.contents : ~IsStr(arguments.contents[i])
     THEN /\ ret' = Raise("create_draft_thread", arguments, "ValueError", "invalid arguments")
          /\ UNCHANGED <<now, dirExists, drafts>>
     ELSE SaveDraft("create_draft_thread", arguments, "thread_draft_",
                    [contents |-> arguments.contents, timestamp |-> Timestamp(now)], <<>>)
  /\ UNCHANGED <<tweets, call>>

\* ---- list_drafts --------------------------------------------------------
\* the orders in which os.listdir may enumerate the directory
ListDir == {order \in [1..Cardinality(DOMAIN drafts) -> DOMAIN drafts] :
              \A i, j \in DOMAIN order : i # j => order[i] # order[j]}

\* list_drafts that reports the single-tweet drafts only
handle_list_drafts_TweetsOnly ==
  /\ \E order \in ListDir :
       ret' = TextResult("list_drafts", <<>>, NoId,
                SelectSeq([i \in DOMAIN order |-> [id |-> order[i], draft |-> drafts[order[i]]]],
                          LAMBDA e : "content" \in DOMAIN e.draft))
  /\ UNCHANGED <<now, dirExists, drafts, tweets, call>>

\* list_drafts that leaves out the files json.load cannot read
handle_list_drafts_SkipCorrupt ==
  /\ \E order \in ListDir :
       ret' = TextResult("list_drafts", <<>>, NoId,
                SelectSeq([i \in DOMAIN order |-> [id |-> order[i], draft |-> drafts[order[i]]]],
                          LAMBDA e : e.draft # Corrupt))
  /\ UNCHANGED <<now, dirExists, drafts, tweets, call>>

handle_list_drafts ==
  /\ \E order \in ListDir :
       ret' = IF dirExists /\ \E i \in DOMAIN order : drafts[order[i]] = Corrupt
              THEN \* json.load raises; the handler raises RuntimeError
                   Raise("list_drafts", <<>>, "RuntimeError", "corrupt draft")
              ELSE TextResult("list_drafts", <<>>, NoId,
                     IF dirExists
                     THEN [i \in DOMAIN order |-> [id |-> order[i], draft |-> drafts[order[i]]]]
                     ELSE <<>>)
  /\ UNCHANGED <<now, dirExists, drafts, tweets, call>>

\* ---- delete_draft -------------------------------------------------------
DraftIdArgs == {[draft_id |-> d] : d \in DraftIds} \cup {<<>>}

handle_delete_draft(arguments) ==
  /\ IF "draft_id" \notin DOMAIN arguments
     THEN /\ ret' = Raise("delete_draft", arguments, "ValueError", "invalid arguments")
          /\ UNCHANGED drafts
     ELSE IF arguments.draft_id \in NonStrings
     THEN \* os.path.join raises TypeError before the try block
          /\ ret' = Raise("delete_draft", arguments, "TypeError", "path join")
          /\ UNCHANGED drafts
     ELSE IF ~Exists(arguments.draft_id)
     THEN \* the ValueError of line 396 is caught by `except Exception`
          /\ ret' = Raise("delete_draft", arguments, "RuntimeError", "does not exist")
          /\ UNCHANGED drafts
     ELSE /\ drafts' = Remove(arguments.draft_id)
          /\ ret' = TextResult("delete_draft", arguments, arguments.draft_id, <<>>)
  /\ UNCHANGED <<now, dirExists, tweets, call>>

\* ---- upload_media_and_tweet ---------------------------------------------
MediaArgs ==
  {[media_path |-> m, tweet_text |-> c] : m \in MediaPaths, c \in Texts}
    \cup {[media_path |-> m] : m \in MediaPaths} \cup {<<>>}

handle_upload_media_and_tweet(arguments) ==
  /\ IF "media_path" \notin DOMAIN arguments \/ "tweet_text" \notin DOMAIN arguments
     THEN /\ ret' = Raise("upload_media_and_tweet", arguments, "ValueError", "invalid arguments")
          /\ UNCHANGED <<now, dirExists, drafts>>
     ELSE IF arguments.media_path \notin MediaFiles
     THEN /\ ret' = Raise("upload_media_and_tweet", arguments, "ValueError", "does not exist")
          /\ UNCHANGED <<now, dirExists, drafts>>
     ELSE \E uploaded \in BOOLEAN, media_id \in MediaRefs :
            IF uploaded
            THEN SaveDraft("upload_media_and_tweet", arguments, "media_draft_",
                           [content |-> arguments.tweet_text,
                            media_id |-> media_id, timestamp |-> Timestamp(now)],
                           <<media_id>>)
            ELSE \* tweepy.TweepyException: the handler returns a text result
                 /\ ret' = WithUploads(
                              [TextResult("upload_media_and_tweet", arguments, NoId, <<>>)
                                 EXCEPT !.msg = "Error creating draft tweet with media"],
                              <<NoMedia>>)
                 /\ UNCHANGED <<now, dirExists, drafts>>
  /\ UNCHANGED <<tweets, call>>

\* ---- publish_draft ------------------------------------------------------
\* a failure of the posting API is swallowed and reported as a text result
FinishAsText(c, kind, msg, tweet_id) ==
  [c EXCEPT !.pc = "done", !.kind = IF kind = "RuntimeError" THEN "text" ELSE kind,
            !.msg = msg, !.tweet_id = tweet_id]

\* every exception leaves the handler wrapped in a RuntimeError
FinishWrapped(c, kind, msg, tweet_id) ==
  [c EXCEPT !.pc = "done", !.kind = IF kind = "ValueError" THEN "RuntimeError" ELSE kind,
            !.msg = msg, !.tweet_id = tweet_id]

\* the call ends: it returns a TextContent result or raises
Finish(c, kind, msg, tweet_id) ==
  [c EXCEPT !.pc = "done", !.kind = kind, !.msg = msg, !.tweet_id = tweet_id]

\* every post of the thread is created as a root post
ReplyToNothing(c) == None

\* in_reply_to_tweet_id of the next post of a thread: none while
\* last_tweet_id is None, else last_tweet_id
ReplyTo(c) == c.last_tweet_id

\* one pass of the thread loop body: create_tweet for entry idx + 1, then
\* asyncio.sleep(1); a tweepy.TweepyException ends the call instead
PostNext(p, c) ==
  LET text == c.draft.contents[c.idx + 1]
      reply == ReplyTo(c)
  IN \E posted \in BOOLEAN :
       IF posted
       THEN /\ tweets < MaxPosts
            /\ tweets' = NewTweetId
            /\ call' = [call EXCEPT ![p] =
                 [c EXCEPT !.pc = "sleep", !.idx = c.idx + 1,
                           !.last_tweet_id = NewTweetId,
                           !.calls = Append(c.calls, PostCall(text, reply, <<>>, NewTweetId)),
                           !.sleeps = c.sleeps + 1]]
       ELSE /\ UNCHANGED tweets
            /\ call' = [call EXCEPT ![p] =
                 Finish([c EXCEPT !.calls = Append(c.calls, PostCall(text, reply, <<>>, None))],
                        "RuntimeError", "twitter api", None)]

\* after the loop, a draft that is already gone is taken as removed
EndThreadIgnoresMissing(p, c) ==
  /\ drafts' = Remove(c.draft_id)
  /\ call' = [call EXCEPT ![p] = Finish(c, "text", "published as thread", c.last_tweet_id)]

\* after the loop: os.remove(filepath) and the result text
EndThread(p, c) ==
  IF Exists(c.draft_id)
  THEN /\ drafts' = Remove(c.draft_id)
       /\ call' = [call EXCEPT ![p] = Finish(c, "text", "published as thread", c.last_tweet_id)]
  ELSE \* FileNotFoundError, caught by `except Exception`
       /\ UNCHANGED drafts
       /\ call' = [call EXCEPT ![p] = Finish(c, "RuntimeError", "storage", None)]

\* the stored media reference is not passed on to create_tweet
MediaIdsDropped(draft) == <<>>

\* media_ids of a single tweet whose draft needs no upload
MediaIds(draft) ==
  IF "media_id" \in DOMAIN draft THEN <<draft.media_id>> ELSE <<>>

\* create_tweet for a single tweet, then os.remove and the result text; a
\* tweepy.TweepyException ends the call instead
PostTweet(p, c, media_ids) ==
  \E posted \in BOOLEAN :
    IF posted
    THEN /\ tweets < MaxPosts
         /\ tweets' = NewTweetId
         /\ drafts' = Remove(c.draft_id)
         /\ call' = [call EXCEPT ![p] =
              Finish([c EXCEPT !.calls = <<PostCall(c.draft.content, None, media_ids, NewTweetId)>>],
                     "text", "published as tweet", NewTweetId)]
    ELSE /\ UNCHANGED <<tweets, drafts>>
         /\ call' = [call EXCEPT ![p] =
              Finish([c EXCEPT !.calls = <<PostCall(c.draft.content, None, media_ids, None)>>],
                     "RuntimeError", "twitter api", None)]

\* the single-tweet branch
PublishTweet(p, c) ==
  IF "media_path" \in DOMAIN c.draft
  THEN \E uploaded \in BOOLEAN, media_id \in MediaRefs :
         IF uploaded
         THEN PostTweet(p, [c EXCEPT !.uploads = <<media_id>>], <<media_id>>)
         ELSE \* upload_media raises RuntimeError
              /\ UNCHANGED <<tweets, drafts>>
              /\ call' = [call EXCEPT ![p] =
                   Finish([c EXCEPT !.uploads = <<NoMedia>>], "RuntimeError", "media upload", None)]
  ELSE PostTweet(p, c, MediaIds(c.draft))

\* the loop resumes at the entry whose posting call failed last time
FirstIndexResumed(retry) == IF retry >= 2 THEN retry - 1 ELSE 0

\* enumerate(draft["contents"]) starts at the first entry, whether or not an
\* earlier publish of the draft failed at its retry-th call
FirstIndex(retry) == 0

\* the handler from its entry to its first suspension or its end; the call
\* is tracked in the first free slot
handle_publish_draft(p, arguments) ==
  /\ call[p].pc = "idle"
  /\ \A q \in Calls : q < p => call[q].pc # "idle"
  /\ LET c0 == [call[p] EXCEPT !.arguments = arguments] IN
     IF "draft_id" \notin DOMAIN arguments
     THEN /\ call' = [call EXCEPT ![p] = Finish(c0, "ValueError", "invalid arguments", None)]
          /\ UNCHANGED <<drafts, tweets>>
     ELSE IF arguments.draft_id \in NonStrings
     THEN \* os.path.join raises TypeError before the try block
          /\ call' = [call EXCEPT ![p] = Finish(c0, "TypeError", "path join", None)]
          /\ UNCHANGED <<drafts, tweets>>
     ELSE IF ~Exists(arguments.draft_id)
     THEN /\ call' = [call EXCEPT ![p] =
               Finish([c0 EXCEPT !.draft_id = arguments.draft_id],
                      "ValueError", "does not exist", None)]
          /\ UNCHANGED <<drafts, tweets>>
     ELSE LET draft == drafts[arguments.draft_id]
              retry == IF lastFailure.draft_id = arguments.draft_id
                       THEN lastFailure.k ELSE 0
              c == [c0 EXCEPT !.draft_id = arguments.draft_id, !.draft = draft,
                              !.retry = retry, !.idx = FirstIndex(retry)]
          IN IF draft = Corrupt
             THEN \* json.load raises inside the try block
                  /\ call' = [call EXCEPT ![p] = Finish(c, "RuntimeError", "corrupt draft", None)]
                  /\ UNCHANGED <<drafts, tweets>>
             ELSE IF "content" \in DOMAIN draft
             THEN PublishTweet(p, c)
             ELSE IF "contents" \in DOMAIN draft
             THEN IF c.idx < Len(draft.contents)
                  THEN PostNext(p, c) /\ UNCHANGED drafts
                  ELSE EndThread(p, c) /\ UNCHANGED tweets
             ELSE /\ call' = [call EXCEPT ![p] = Finish(c, "RuntimeError", "invalid draft format", None)]
                  /\ UNCHANGED <<drafts, tweets>>
  /\ UNCHANGED <<now, dirExists, ret>>

\* the handler from the end of a pause to its next suspension or its end
publish_resume(p) ==
  /\ call[p].pc = "sleep"
  /\ IF call[p].idx < Len(call[p].draft.contents)
     THEN PostNext(p, call[p]) /\ UNCHANGED drafts
     ELSE EndThread(p, call[p]) /\ UNCHANGED tweets
  /\ UNCHANGED <<now, dirExists, ret>>

\* the finished call's result or failure is handed to the caller
call_tool_return(p) ==
  /\ call[p].pc = "done"
  /\ call' = [call EXCEPT ![p] = IdleCall]
  /\ UNCHANGED <<now, dirExists, drafts, tweets, ret>>

\* the result or failure of a create, list, upload or delete call is handed
\* to the caller
call_tool_respond ==
  /\ ret # NoRet
  /\ ret' = NoRet
  /\ UNCHANGED <<now, dirExists, drafts, tweets, call>>

\* call_tool: a call is routed to its handler
Dispatch ==
  \/ \E arguments \in TweetArgs : handle_create_draft_tweet(arguments)
  \/ \E arguments \in ThreadArgs : handle_create_draft_thread(arguments)
  \/ handle_list_drafts
  \/ \E arguments \in DraftIdArgs : handle_delete_draft(arguments)
  \/ \E arguments \in MediaArgs : handle_upload_media_and_tweet(arguments)
  \/ \E p \in Calls, arguments \in DraftIdArgs : handle_publish_draft(p, arguments)

\* no call is in progress
Quiet == \A p \in Calls : call[p].pc = "idle"

\* a publish_draft call is at a pause and no finished call awaits its return
Suspended ==
  /\ \E p \in Calls : call[p].pc = "sleep"
  /\ \A p \in Calls : call[p].pc # "done"

\* history, kept by SpecRetry: lastFailure names the draft and the failed
\* call k of the thread publish that last failed at a call k >= 2, until that
\* draft is removed or rewritten or the next publish of it starts
History ==
  LET failing == {p \in Calls : /\ call[p].pc # "done"
                                /\ call'[p].pc = "done"
                                /\ call'[p].msg = "twitter api"
                                /\ "contents" \in DOMAIN call'[p].draft
                                /\ Len(call'[p].calls) >= 2}
      starting == {p \in Calls : call[p].pc = "idle" /\ call'[p].pc # "idle"}
      id == lastFailure.draft_id
  IN lastFailure' =
       IF failing # {}
       THEN LET p == CHOOSE q \in failing : TRUE
            IN [draft_id |-> call'[p].draft_id, k |-> Len(call'[p].calls)]
       ELSE IF lastFailure = NoFailure THEN NoFailure
       ELSE IF id \notin DOMAIN drafts' THEN NoFailure
       ELSE IF drafts'[id] # drafts[id] THEN NoFailure
       ELSE IF \E p \in starting : call'[p].draft_id = id THEN NoFailure
       ELSE lastFailure

\* the host hands over one call at a time, and the next one after the
\* outcome of the last has been handed back
Next ==
  \/ ret = NoRet /\ Tick /\ UNCHANGED lastFailure
  \/ ret = NoRet /\ Quiet /\ Dispatch /\ UNCHANGED lastFailure
  \/ \E p \in Calls : publish_resume(p) /\ UNCHANGED lastFailure
  \/ \E p \in Calls : call_tool_return(p) /\ UNCHANGED lastFailure
  \/ call_tool_respond /\ UNCHANGED lastFailure

Spec == Init /\ [][Next]_vars

\* calls on a draft id that the host may start while a publish_draft call is
\* suspended at a pause
Racing ==
  \/ \E arguments \in DraftIdArgs : handle_delete_draft(arguments)
  \/ \E p \in Calls, arguments \in DraftIdArgs : handle_publish_draft(p, arguments)

\* the host also starts delete_draft and publish_draft calls while a
\* publish_draft call is suspended
NextOverlap ==
  \/ ret = NoRet /\ Tick /\ UNCHANGED lastFailure
  \/ ret = NoRet /\ Quiet /\ Dispatch /\ UNCHANGED lastFailure
  \/ ret = NoRet /\ Suspended /\ Racing /\ UNCHANGED lastFailure
  \/ \E p \in Calls : ret = NoRet /\ publish_resume(p) /\ UNCHANGED lastFailure
  \/ \E p \in Calls : ret = NoRet /\ call_tool_return(p) /\ UNCHANGED lastFailure
  \/ call_tool_respond /\ UNCHANGED lastFailure

SpecOverlap == Init /\ [][NextOverlap]_vars

\* argument objects with a field whose value is not of the type the
\* inputSchema declares
UntypedTweetArgs == {[content |-> c] : c \in NonStrings}
UntypedThreadArgs == {[contents |-> cs] : cs \in NonLists \cup {<<"#7">>, <<"a", "#7">>}}
UntypedDraftIdArgs == {[draft_id |-> d] : d \in NonStrings}
UntypedMediaArgs == {[media_path |-> m, tweet_text |-> c] : m \in MediaPaths, c \in NonStrings}

Untyped ==
  \/ \E arguments \in UntypedTweetArgs : handle_create_draft_tweet(arguments)
  \/ \E arguments \in UntypedThreadArgs : handle_create_draft_thread(arguments)
  \/ \E arguments \in UntypedDraftIdArgs : handle_delete_draft(arguments)
  \/ \E arguments \in UntypedMediaArgs : handle_upload_media_and_tweet(arguments)
  \/ \E p \in Calls, arguments \in UntypedDraftIdArgs : handle_publish_draft(p, arguments)

\* the sequential host, handing over the caller's arguments unvalidated
NextUntyped ==
  \/ ret = NoRet /\ Tick /\ UNCHANGED lastFailure
  \/ ret = NoRet /\ Quiet /\ Dispatch /\ UNCHANGED lastFailure
  \/ ret = NoRet /\ Quiet /\ Untyped /\ UNCHANGED lastFailure
  \/ \E p \in Calls : publish_resume(p) /\ UNCHANGED lastFailure
  \/ \E p \in Calls : call_tool_return(p) /\ UNCHANGED lastFailure
  \/ call_tool_respond /\ UNCHANGED lastFailure

SpecUntyped == Init /\ [][NextUntyped]_vars

\* the server starts without a drafts directory, or on one in which an
\* earlier run has left a file that is not valid JSON
InitStray ==
  /\ now = 0
  /\ dirExists \in BOOLEAN
  /\ drafts = IF dirExists THEN [f \in {DraftName("draft_", 0)} |-> Corrupt] ELSE <<>>
  /\ tweets = 0
  /\ call = [p \in Calls |-> IdleCall]
  /\ ret = NoRet
  /\ lastFailure = NoFailure

SpecStray == InitStray /\ [][Next]_vars

\* the calls that write, remove or publish a thread draft
ThreadCalls ==
  \/ \E arguments \in ThreadArgs : handle_create_draft_thread(arguments)
  \/ \E arguments \in DraftIdArgs : handle_delete_draft(arguments)
  \/ \E p \in Calls, arguments \in DraftIdArgs : handle_publish_draft(p, arguments)

\* the sequential host working on threads, with the failures of its
\* publish_draft calls recorded
NextRetry ==
  \/ ret = NoRet /\ Tick /\ History
  \/ ret = NoRet /\ Quiet /\ ThreadCalls /\ History
  \/ \E p \in Calls : publish_resume(p) /\ History
  \/ \E p \in Calls : call_tool_return(p) /\ History
  \/ call_tool_respond /\ History

SpecRetry == Init /\ [][NextRetry]_vars

\* a delete_draft call started while a publish_draft call is suspended
DeleteRacing == \E arguments \in DraftIdArgs : handle_delete_draft(arguments)

\* the host working on threads that also starts delete_draft calls while a
\* publish_draft call is suspended
NextRace ==
  \/ ret = NoRet /\ Tick /\ UNCHANGED lastFailure
  \/ ret = NoRet /\ Quiet /\ ThreadCalls /\ UNCHANGED lastFailure
  \/ ret = NoRet /\ Suspended /\ DeleteRacing /\ UNCHANGED lastFailure
  \/ \E p \in Calls : ret = NoRet /\ publish_resume(p) /\ UNCHANGED lastFailure
  \/ \E p \in Calls : ret = NoRet /\ call_tool_return(p) /\ UNCHANGED lastFailure
  \/ call_tool_respond /\ UNCHANGED lastFailure

SpecRace == Init /\ [][NextRace]_vars

\* ---- vocabulary of the properties ---------------------------------------
Done(p) == call[p].pc = "done"
IsTweet(draft) == "content" \in DOMAIN draft
IsThread(draft) == "contents" \in DOMAIN draft
AllPosted(calls) == \A k \in DOMAIN calls : calls[k].id # None
Succeeded(p) == Done(p) /\ call[p].kind = "text"
IsCreate(r) ==
  /\ r.op \in {"create_draft_tweet", "create_draft_thread", "upload_media_and_tweet"}
  /\ r.kind = "text"
  /\ r.msg = "ok"
ListedIds(r) == {r.listing[i].id : i \in DOMAIN r.listing}

\* a list_drafts result names the files of the directory and no other id
ListShowsTheStore == (ret.op = "list_drafts") => (ListedIds(ret) = DOMAIN drafts)

\* an id that is not in the directory enters it only by a successful create
\* that returns this id
OnlyCreateAdds ==
  \A id \in DraftIds :
    (~Exists(id) /\ id \in DOMAIN drafts') => (IsCreate(ret') /\ ret'.draft_id = id)

\* ---- C1 -----------------------------------------------------------------
\* C1: the posting calls of a thread publish follow the contents in order,
\* call k carrying text ck; the first call has no reply reference and call
\* k >= 2 replies to the id returned by call k-1; when every posting call
\* succeeded the call has issued exactly n of them.
C1_ThreadIsLinearChain ==
  \A p \in Calls :
    IsThread(call[p].draft) =>
      LET cs == call[p].draft.contents
          calls == call[p].calls
      IN /\ Len(calls) <= Len(cs)
         /\ \A k \in DOMAIN calls :
              /\ calls[k].text = cs[k]
              /\ k = 1 => calls[k].in_reply_to_tweet_id = None
              /\ k > 1 => /\ calls[k - 1].id # None
                          /\ calls[k].in_reply_to_tweet_id = calls[k - 1].id
         /\ (Done(p) /\ AllPosted(calls)) => Len(calls) = Len(cs)

\* a two-entry thread with different texts has been published
C1_Witness ==
  \E p \in Calls :
    /\ Succeeded(p)
    /\ IsThread(call[p].draft)
    /\ Len(call[p].draft.contents) = 2
    /\ call[p].draft.contents[1] # call[p].draft.contents[2]
    /\ Len(call[p].calls) = 2

\* ---- C2 -----------------------------------------------------------------
\* C2: a successful publish of a thread with n >= 1 entries reports the id
\* of the root post, the id returned by the first posting call.
C2_ReturnsRootId ==
  \A p \in Calls :
    (Succeeded(p) /\ IsThread(call[p].draft) /\ Len(call[p].draft.contents) >= 1)
      => call[p].tweet_id = call[p].calls[1].id

\* ---- C3 -----------------------------------------------------------------
PostingFailed(c) == c.pc = "done" /\ c.msg = "twitter api"

\* C3: when a posting call of publish_draft fails, the call ends in an error
\* with the failed call as its last posting call, the posts of the earlier
\* calls are still on the platform, the draft is still in the store with the
\* record the call read, and the failing step and the steps after it change
\* neither the store nor the platform.
C3_PostingFailureAborts ==
  /\ [](\A p \in Calls :
         PostingFailed(call[p]) =>
           LET calls == call[p].calls
               n == Len(calls)
           IN /\ call[p].kind = "RuntimeError"
              /\ n >= 1
              /\ calls[n].id = None
              /\ \A k \in 1..(n - 1) : calls[k].id \in 1..tweets
              /\ Exists(call[p].draft_id)
              /\ drafts[call[p].draft_id] = call[p].draft)
  /\ [][\A p \in Calls :
          /\ (PostingFailed(call'[p]) /\ ~PostingFailed(call[p]))
               => (drafts' = drafts /\ tweets' = tweets)
          /\ PostingFailed(call[p])
               => /\ tweets' = tweets
                  /\ call'[p] = call[p] \/ call'[p] = IdleCall
          /\ tweets' >= tweets]_vars

\* the second posting call of a thread publish has failed
C3_Witness ==
  \E p \in Calls :
    /\ PostingFailed(call[p])
    /\ IsThread(call[p].draft)
    /\ Len(call[p].calls) = 2
    /\ call[p].calls[1].id # None

\* ---- C4 -----------------------------------------------------------------
\* C4: a publish_draft of a single-post draft whose posting call succeeds
\* makes exactly one posting call, with the draft's content and no reply
\* reference, returns the id that call returned and removes that draft and
\* no other; the id is in no list_drafts result until a create returns it.
C4_SinglePostPublish ==
  /\ [][\A p \in Calls :
          (/\ call[p].pc = "idle"
           /\ call'[p].pc # "idle"
           /\ IsTweet(call'[p].draft)
           /\ tweets' # tweets)
            => LET c == call'[p]
                   id == c.draft_id
               IN /\ Exists(id)
                  /\ c.draft = drafts[id]
                  /\ tweets' = tweets + 1
                  /\ Len(c.calls) = 1
                  /\ c.calls[1].text = drafts[id].content
                  /\ c.calls[1].in_reply_to_tweet_id = None
                  /\ c.calls[1].id = tweets'
                  /\ c.pc = "done"
                  /\ c.kind = "text"
                  /\ c.tweet_id = c.calls[1].id
                  /\ DOMAIN drafts' = DOMAIN drafts \ {id}
                  /\ \A f \in DOMAIN drafts' : drafts'[f] = drafts[f]]_vars
  /\ []ListShowsTheStore
  /\ [][OnlyCreateAdds]_vars

\* a single-post draft has been published and is gone from the store
C4_Witness ==
  \E p \in Calls :
    /\ Succeeded(p)
    /\ IsTweet(call[p].draft)
    /\ Len(call[p].calls) = 1
    /\ ~Exists(call[p].draft_id)

C6_DeleteRemovesExactlyThat ==
  /\ [][(/\ ret'.op = "delete_draft"
         /\ "draft_id" \in DOMAIN ret'.arguments
         /\ ret'.arguments.draft_id \notin NonStrings
         /\ Exists(ret'.arguments.draft_id))
          => /\ ret'.kind = "text"
             /\ ret'.draft_id = ret'.arguments.draft_id
             /\ DOMAIN drafts' = DOMAIN drafts \ {ret'.arguments.draft_id}
             /\ \A f \in DOMAIN drafts' : drafts'[f] = drafts[f]
             /\ ret'.uploads = <<>>
             /\ tweets' = tweets
             /\ call' = call]_vars
  /\ [](ret.op = "delete_draft" /\ ret.kind = "text" => ~Exists(ret.draft_id))
  /\ []ListShowsTheStore
  /\ [][OnlyCreateAdds]_vars

\* a draft has been deleted and another draft is still in the store
C6_Witness ==
  /\ ret.op = "delete_draft"
  /\ ret.kind = "text"
  /\ ~Exists(ret.draft_id)
  /\ drafts # <<>>

\* ---- C7 -----------------------------------------------------------------
\* C7: a delete_draft of an id that is not in the store fails with the
\* not-found error kind that publish_draft raises for a missing id (a
\* ValueError), not with the generic RuntimeError.
C7_DeleteMissingIsNotFound ==
  (ret.op = "delete_draft" /\ ret.msg = "does not exist") => ret.kind = "ValueError"

\* ---- C8 -----------------------------------------------------------------
\* C8: when a successful create_draft_tweet or create_draft_thread has left
\* one draft in the store, that draft is stored under the id the create
\* returned and holds the content (the contents, same elements in the same
\* order) the create was given; and a list_drafts of a store of one draft
\* returns exactly one entry, with the id and the record of that draft.
C8_CreateListRoundTrip ==
  /\ (/\ ret.op \in {"create_draft_tweet", "create_draft_thread"}
      /\ ret.kind = "text"
      /\ Cardinality(DOMAIN drafts) = 1)
       => /\ DOMAIN drafts = {ret.draft_id}
          /\ ret.op = "create_draft_tweet" =>
               /\ IsTweet(drafts[ret.draft_id])
               /\ ~IsThread(drafts[ret.draft_id])
               /\ drafts[ret.draft_id].content = ret.arguments.content
          /\ ret.op = "create_draft_thread" =>
               /\ IsThread(drafts[ret.draft_id])
               /\ ~IsTweet(drafts[ret.draft_id])
               /\ drafts[ret.draft_id].contents = ret.arguments.contents
  /\ (ret.op = "list_drafts" /\ Cardinality(DOMAIN drafts) = 1)
       => /\ ret.kind = "text"
          /\ Len(ret.listing) = 1
          /\ DOMAIN drafts = {ret.listing[1].id}
          /\ ret.listing[1].draft = drafts[ret.listing[1].id]

\* a list_drafts has returned one entry, a thread of two different texts
C8_Witness ==
  /\ ret.op = "list_drafts"
  /\ Len(ret.listing) = 1
  /\ IsThread(ret.listing[1].draft)
  /\ Len(ret.listing[1].draft.contents) = 2
  /\ ret.listing[1].draft.contents[1] # ret.listing[1].draft.contents[2]

\* ---- C9 -----------------------------------------------------------------
\* C9: every successful draft-creating call returns an id that differs from
\* the id of every draft in the store at that moment.
C9_CreateReturnsFreshId ==
  [][IsCreate(ret') => ~Exists(ret'.draft_id)]_vars

\* ---- C10 ----------------------------------------------------------------
\* the record of a draft: its content or contents and its media reference
RecordOf(draft) == [k \in DOMAIN draft \ {"timestamp"} |-> draft[k]]

\* C10: the record stored under an id is the same in every state from the
\* draft's creation until its removal: no step changes the record of a draft
\* that stays in the store.
C10_DraftImmutable ==
  [][\A id \in DOMAIN drafts \cap DOMAIN drafts' :
       RecordOf(drafts'[id]) = RecordOf(drafts[id])]_vars

\* ---- C11 ----------------------------------------------------------------
\* the argument object has the required fields of the tool's inputSchema,
\* with the declared types
ValidArgs(op, arguments) ==
  CASE op = "create_draft_tweet" ->
         "content" \in DOMAIN arguments /\ IsStr(arguments.content)
    [] op = "create_draft_thread" ->
         /\ "contents" \in DOMAIN arguments
         /\ IsList(arguments.contents)
         /\ \A i \in DOMAIN arguments.contents : IsStr(arguments.contents[i])
    [] op \in {"publish_draft", "delete_draft"} ->
         "draft_id" \in DOMAIN arguments /\ arguments.draft_id \notin NonStrings
    [] op = "upload_media_and_tweet" ->
         /\ "media_path" \in DOMAIN arguments /\ IsStr(arguments.media_path)
         /\ "tweet_text" \in DOMAIN arguments /\ IsStr(arguments.tweet_text)
    [] OTHER -> TRUE

\* C11: a call whose argument object lacks a required field or has a field
\* of the wrong declared type fails with the invalid-argument ValueError
\* before any side effect: no draft is written or removed and no external
\* API call is made.
C11_InvalidArgumentsRejected ==
  [][/\ (ret' # ret /\ ~ValidArgs(ret'.op, ret'.arguments))
          => /\ ret'.kind = "ValueError"
             /\ ret'.msg = "invalid arguments"
             /\ ret'.uploads = <<>>
             /\ drafts' = drafts
             /\ tweets' = tweets
     /\ \A p \in Calls :
          (call[p].pc = "idle" /\ call'[p].pc # "idle"
             /\ ~ValidArgs("publish_draft", call'[p].arguments))
          => /\ call'[p].kind = "ValueError"
             /\ call'[p].msg = "invalid arguments"
             /\ call'[p].calls = <<>>
             /\ drafts' = drafts
             /\ tweets' = tweets]_vars

\* ---- C12 ----------------------------------------------------------------
\* the call made its media upload and wrote no draft: the upload or the
\* storage failed
UploadCallFailed(r) ==
  r.op = "upload_media_and_tweet" /\ r.uploads # <<>> /\ r.draft_id = NoId

\* C12: a failure of a collaborator (storage I/O, posting API, media upload)
\* ends the call in a raised failure, never in a normal text result; a
\* failed upload inside upload_media_and_tweet fails the call.
C12_CollaboratorFailureRaises ==
  /\ UploadCallFailed(ret) => ret.kind = "RuntimeError"
  /\ ret.msg = "storage" => ret.kind = "RuntimeError"
  /\ \A p \in Calls :
       (Done(p) /\ call[p].msg \in {"storage", "twitter api", "media upload"})
         => call[p].kind = "RuntimeError"

\* ---- C13 ----------------------------------------------------------------
\* C13: a successful upload_media_and_tweet has made exactly one
\* media-upload call and its draft is a single-post draft holding tweet_text
\* and the media reference that upload returned; a successful publish_draft
\* of a draft holding a media reference has made exactly one posting call,
\* with the draft's text and with media ids exactly that stored reference,
\* and no media-upload call.
C13_MediaDraftPublishedWithoutUpload ==
  /\ (IsCreate(ret) /\ ret.op = "upload_media_and_tweet")
       => /\ Len(ret.uploads) = 1
          /\ ret.uploads[1] \in MediaRefs
          /\ Exists(ret.draft_id)
          /\ IsTweet(drafts[ret.draft_id])
          /\ ~IsThread(drafts[ret.draft_id])
          /\ drafts[ret.draft_id].content = ret.arguments.tweet_text
          /\ drafts[ret.draft_id].media_id = ret.uploads[1]
  /\ \A p \in Calls :
       (Succeeded(p) /\ "media_id" \in DOMAIN call[p].draft)
         => /\ Len(call[p].calls) = 1
            /\ call[p].calls[1].text = call[p].draft.content
            /\ call[p].calls[1].media_ids = <<call[p].draft.media_id>>
            /\ call[p].calls[1].in_reply_to_tweet_id = None
            /\ call[p].uploads = <<>>

\* a draft written by upload_media_and_tweet has been published
C13_Witness ==
  \E p \in Calls :
    /\ Succeeded(p)
    /\ call[p].draft_id[1] = "media_draft_"
    /\ "media_id" \in DOMAIN call[p].draft
    /\ call[p].calls # <<>>
    /\ ~Exists(call[p].draft_id)

\* ---- C14 ----------------------------------------------------------------
\* C14: a publish_draft of a thread that follows a publish of the same draft
\* which failed at its k-th posting call (k >= 2) starts again from the
\* first entry: its i-th posting call posts entry i, the first one without
\* a reply reference, so that entries 1..k-1 are posted a second time on
\* top of the k-1 posts the failed call left on the platform.
C14_RetryRestartsFromFirstEntry ==
  \A p \in Calls :
    call[p].retry >= 2 =>
      LET c == call[p] IN
      /\ IsThread(c.draft)
      /\ Len(c.draft.contents) >= c.retry
      /\ c.calls # <<>>
      /\ c.calls[1].in_reply_to_tweet_id = None
      /\ \A i \in DOMAIN c.calls : c.calls[i].text = c.draft.contents[i]
      /\ tweets >= (c.retry - 1) + Cardinality({i \in DOMAIN c.calls : c.calls[i].id # None})
      /\ Succeeded(p) => /\ Len(c.calls) = Len(c.draft.contents)
                         /\ AllPosted(c.calls)

\* the retry of a thread publish that had failed after its first posting
\* call has posted every entry
C14_Witness ==
  \E p \in Calls :
    /\ call[p].retry >= 2
    /\ Succeeded(p)
    /\ tweets >= Len(call[p].calls) + 1

\* ---- C15 ----------------------------------------------------------------
\* C15: publish_draft pauses only between successive posting calls: a
\* successful publish of a thread of n >= 1 entries has paused n - 1 times,
\* no call is at a pause after the posting call of the final entry, and a
\* single-post publish has not paused.
C15_PausesOnlyBetweenPosts ==
  \A p \in Calls :
    LET c == call[p] IN
    /\ (Succeeded(p) /\ IsThread(c.draft) /\ c.draft.contents # <<>>)
         => c.sleeps = Len(c.draft.contents) - 1
    /\ c.pc = "sleep" => c.idx < Len(c.draft.contents)
    /\ (Succeeded(p) /\ IsTweet(c.draft)) => c.sleeps = 0

\* ---- C16 ----------------------------------------------------------------
\* C16: list_drafts changes neither the store nor the platform and starts no
\* publish; when every file of the store is a readable draft it returns
\* exactly one entry {id, draft} per file, none omitted and none twice, each
\* with the record stored under its id; when some file is corrupt the whole
\* call fails; for an empty or absent store it returns the empty list.
C16_ListDrafts ==
  [][ret'.op = "list_drafts" =>
       /\ drafts' = drafts
       /\ dirExists' = dirExists
       /\ tweets' = tweets
       /\ call' = call
       /\ ret'.uploads = <<>>
       /\ IF \E f \in DOMAIN drafts : drafts[f] = Corrupt
          THEN ret'.kind = "RuntimeError"
          ELSE /\ ret'.kind = "text"
               /\ Len(ret'.listing) = Cardinality(DOMAIN drafts)
               /\ ListedIds(ret') = DOMAIN drafts
               /\ \A i \in DOMAIN ret'.listing :
                    /\ DOMAIN ret'.listing[i] = {"id", "draft"}
                    /\ ret'.listing[i].draft = drafts[ret'.listing[i].id]
       /\ (~dirExists \/ drafts = <<>>) => (ret'.kind = "text" /\ ret'.listing = <<>>)]_vars

\* a list_drafts has failed on a store holding a corrupt file beside a
\* readable draft
C16_Witness ==
  /\ ret.op = "list_drafts"
  /\ ret.kind = "RuntimeError"
  /\ \E f, g \in DOMAIN drafts : drafts[f] = Corrupt /\ drafts[g] # Corrupt

\* a list_drafts of a store of two readable drafts has returned two entries
C16_WitnessListed ==
  /\ ret.op = "list_drafts"
  /\ ret.kind = "text"
  /\ Len(ret.listing) = 2

\* ---- C17 ----------------------------------------------------------------
\* C17: when the draft of a thread publish has been removed by a
\* delete_draft while the publish was suspended at a pause, every later
\* step of the publish still works on the contents it read at its start: it
\* issues the posting call of the next entry, replying to its last post,
\* until all entries are posted (or a posting call fails), and then ends in
\* an error at the removal of the draft, with nothing more posted.
C17_DeleteDuringPause ==
  [][\A p \in Calls :
       (call[p].pc = "sleep" /\ call'[p] # call[p] /\ ~Exists(call[p].draft_id))
         => LET c == call[p]
                d == call'[p]
                n == Len(c.draft.contents)
            IN /\ d.draft = c.draft
               /\ IF c.idx < n
                  THEN /\ Len(d.calls) = Len(c.calls) + 1
                       /\ d.calls[Len(d.calls)].text = c.draft.contents[c.idx + 1]
                       /\ d.calls[Len(d.calls)].in_reply_to_tweet_id = c.last_tweet_id
                       /\ d.pc = "sleep" \/ PostingFailed(d)
                  ELSE /\ d.pc = "done"
                       /\ d.kind = "RuntimeError"
                       /\ d.msg = "storage"
                       /\ d.calls = c.calls
                       /\ Len(d.calls) = n
                       /\ AllPosted(d.calls)
                       /\ tweets' = tweets
                       /\ drafts' = drafts]_vars

\* a publish of a thread of two or more entries has posted them all and
\* failed at the removal of its draft
C17_Witness ==
  \E p \in Calls :
    /\ Done(p)
    /\ call[p].kind = "RuntimeError"
    /\ call[p].msg = "storage"
    /\ Len(call[p].calls) >= 2
    /\ Len(call[p].calls) = Len(call[p].draft.contents)
    /\ AllPosted(call[p].calls)
    /\ ~Exists(call[p].draft_id)

\* ---- C18 ----------------------------------------------------------------
\* C18: of two overlapping publish_draft calls on the same thread draft
\* whose posting calls all succeed, at most one issues posting calls for
\* the draft, so that no entry of the thread is posted twice.
C18_PostedAtMostOnce ==
  \A p, q \in Calls :
    (/\ p # q
     /\ call[p].pc # "idle"
     /\ call[q].pc # "idle"
     /\ call[p].draft_id # NoId
     /\ call[p].draft_id = call[q].draft_id
     /\ IsThread(call[p].draft)
     /\ IsThread(call[q].draft)
     /\ AllPosted(call[p].calls)
     /\ AllPosted(call[q].calls))
      => \/ call[p].calls = <<>>
         \/ call[q].calls = <<>>

\* ---- C19 ----------------------------------------------------------------
\* C19: create_draft_thread does not reject an empty contents list and, when
\* it succeeds, stores a thread draft with no entry; a publish_draft of a
\* thread draft with no entry succeeds without a posting call and without a
\* pause, has removed the draft, and its result carries no post id.
C19_EmptyThread ==
  /\ (/\ ret.op = "create_draft_thread"
      /\ "contents" \in DOMAIN ret.arguments
      /\ ret.arguments.contents = <<>>)
       => /\ ret.kind # "ValueError"
          /\ IsCreate(ret) => /\ Exists(ret.draft_id)
                              /\ IsThread(drafts[ret.draft_id])
                              /\ drafts[ret.draft_id].contents = <<>>
  /\ \A p \in Calls :
       (Done(p) /\ IsThread(call[p].draft) /\ call[p].draft.contents = <<>>)
         => /\ call[p].kind = "text"
            /\ call[p].calls = <<>>
            /\ call[p].sleeps = 0
            /\ call[p].tweet_id = None
            /\ ~Exists(call[p].draft_id)

\* a thread draft with no entry has been published
C19_Witness ==
  \E p \in Calls :
    /\ Succeeded(p)
    /\ IsThread(call[p].draft)
    /\ call[p].draft.contents = <<>>
    /\ ~Exists(call[p].draft_id)
====
